---------------------------- MODULE Spec2Model ----------------------------
(***************************************************************************)
(* Adaptive loudness averaging (dynadapt): the two scripts dyn_adapt4.py   *)
(* (argparse, gain clamp, two phases) and dyn_adapt2.py (regex arguments,  *)
(* no clamp, one phase) as one state machine.  A run is a straight line:   *)
(* parse arguments, read the file, plan the blocks, process the blocks of  *)
(* phase 1, flush, (phase 2: shift, process, flush, compose), normalise    *)
(* globally and write.                                                     *)
(*                                                                         *)
(* Numbers.  Samples, multipliers and dB values are IEEE doubles in the    *)
(* code.  Here they are exact extended rationals <<n, d>>: d > 0 is the    *)
(* rational n/d in lowest terms, <<1, 0>> is +inf, <<-1, 0>> is -inf and   *)
(* <<0, 0>> is NaN, with IEEE's rules for them (inf * 0 = NaN,             *)
(* inf - inf = NaN).  Rounding of finite values is not modelled.           *)
(*                                                                         *)
(* The BS.1770 meter (pyloudnorm.Meter.integrated_loudness) is an external *)
(* library: its reading is a nondeterministic choice, -inf (a block below  *)
(* the absolute gate) included.  Finite readings are drawn at multiples of *)
(* 20 dB from the target, so that the multiplier 10^(gain/20) that         *)
(* pyloudnorm.normalize.loudness applies is an exact power of ten.         *)
(***************************************************************************)
EXTENDS Integers, Sequences, FiniteSets, TLC

VARIABLES
    variant,          \* 4: dyn_adapt4.py, 2: dyn_adapt2.py
    args,             \* the command line as given
    file,             \* the input file on disk
    pc,               \* position of the script
    division,         \* block length in seconds (dyn_adapt2: later the block count)
    xfade,            \* crossfade ratio
    final_loudness,   \* target loudness, LUFS
    max_gain,         \* gain limit, dB (dyn_adapt4 only)
    audio,            \* decoded input: a sequence of frames, a frame a tuple of samples
    samplerate,
    channels,
    samples,
    blocksize,
    fadesize,
    block_count,
    idx,              \* loop index of the running block loop
    loudness,         \* the script's `loudness`: the value last passed to normalize
    new_audio,
    prev_audio,
    shift_audio,
    new_shift_audio,
    written,          \* <<>> or <<buffer>>: what soundfile.write received
    printed,          \* the fatal message printed, "" if none
    measured,         \* history: the meter's reading for the last block
    blend,            \* history: the last block's crossfade, values before and after
    prev_id,          \* history: <<phase, index>> of the block held in prev_audio
    appended,         \* history: the blocks appended to the current phase's output
    phase1_out        \* history: new_audio as phase 1 left it

vars == <<variant, args, file, pc, division, xfade, final_loudness, max_gain,
          audio, samplerate, channels, samples, blocksize, fadesize,
          block_count, idx, loudness, new_audio, prev_audio, shift_audio,
          new_shift_audio, written, printed, measured, blend, prev_id,
          appended, phase1_out>>

---------------------------------------------------------------------------
\* Bounds of the model.

\* Longest input file, in sample frames.
MaxLen == 8

---------------------------------------------------------------------------
\* Extended rationals.

Abs(n) == IF n < 0 THEN -n ELSE n

Sign(n) == IF n < 0 THEN -1 ELSE IF n > 0 THEN 1 ELSE 0

RECURSIVE Gcd(_, _)
Gcd(a, b) == IF b = 0 THEN a ELSE Gcd(b, a % b)

\* n/d in lowest terms with a positive denominator; n/0 is +inf, -inf or NaN.
Norm(n, d) ==
    IF d = 0 THEN <<Sign(n), 0>>
    ELSE LET g == Gcd(Abs(n), Abs(d))
         IN  <<(Sign(d) * n) \div g, Abs(d) \div g>>

R(n) == <<n, 1>>
PosInf == <<1, 0>>
NegInf == <<-1, 0>>
NaN == <<0, 0>>

IsFinite(a) == a[2] # 0
IsNaN(a) == a = NaN

RMul(a, b) == Norm(a[1] * b[1], a[2] * b[2])

RAdd(a, b) ==
    IF a[2] = 0 /\ b[2] = 0
    THEN (IF a = b THEN a ELSE NaN)
    ELSE Norm(a[1] * b[2] + b[1] * a[2], a[2] * b[2])

RNeg(a) == <<-a[1], a[2]>>
RSub(a, b) == RAdd(a, RNeg(b))
RAbs(a) == <<Abs(a[1]), a[2]>>

\* a < b and a <= b as IEEE compares: false when either side is NaN.
RLt(a, b) ==
    /\ ~IsNaN(a) /\ ~IsNaN(b)
    /\ IF a[2] = 0 /\ b[2] = 0 THEN a[1] < b[1]
       ELSE IF a[2] = 0 THEN a[1] < 0
       ELSE IF b[2] = 0 THEN b[1] > 0
       ELSE a[1] * b[2] < b[1] * a[2]
RLe(a, b) == ~IsNaN(a) /\ ~IsNaN(b) /\ (a = b \/ RLt(a, b))
RGt(a, b) == RLt(b, a)
RGe(a, b) == RLe(b, a)

\* int(x) of a finite rational: truncation toward zero.
Trunc(a) == Sign(a[1]) * (Abs(a[1]) \div a[2])

RECURSIVE Pow10(_)
Pow10(k) == IF k = 0 THEN 1 ELSE 10 * Pow10(k - 1)

---------------------------------------------------------------------------
\* Python and numpy helpers.

\* int(a / b) for integers a, b with b # 0: true division, then truncation.
IntDiv(a, b) == Trunc(Norm(a, b))

\* A slice bound as Python normalises it: negative counts from the end, then
\* clamped into 0..len.
PyBound(k, len) ==
    LET k1 == IF k < 0 THEN k + len ELSE k
    IN  IF k1 < 0 THEN 0 ELSE IF k1 > len THEN len ELSE k1

\* s[a:b] and s[a:] on a sequence whose Python index i is TLA+ index i + 1.
PySlice(s, a, b) == SubSeq(s, PyBound(a, Len(s)) + 1, PyBound(b, Len(s)))
PySliceFrom(s, a) == SubSeq(s, PyBound(a, Len(s)) + 1, Len(s))

\* gain * data: every sample of every frame multiplied.
Scale(data, gain) ==
    [i \in 1..Len(data) |-> [c \in 1..Len(data[i]) |-> RMul(gain, data[i][c])]]

---------------------------------------------------------------------------
\* pyloudnorm, at its interface.

\* 10^(db/20), for db a whole multiple of 20, +inf or -inf.
Lin(db) ==
    IF ~IsFinite(db) THEN (IF db = PosInf THEN PosInf
                           ELSE IF db = NegInf THEN R(0) ELSE NaN)
    ELSE LET k == db[1] \div 20
         IN  IF k >= 0 THEN R(Pow10(k)) ELSE Norm(1, Pow10(-k))

\* pyloudnorm.normalize.loudness(data, input_loudness, target_loudness):
\* gain = 10^((target - input)/20), output = gain * data.
NormalizeLoudness(data, input_loudness, target_loudness) ==
    Scale(data, Lin(RSub(target_loudness, input_loudness)))

\* Meter.integrated_loudness raises ValueError for audio shorter than one
\* 0.4 s gating block.
MeterRejects(data, rate) == 5 * Len(data) < 2 * rate

\* What the meter may report for a block when the target is t: -inf for a
\* block below the gate, a block 40 dB too quiet, a block 20 dB too loud.
MeterReadings(t) == {NegInf, RSub(t, R(40)), RAdd(t, R(20))}

---------------------------------------------------------------------------
\* Defaults of the scripts.

default_loudness == -16
default_crossfade == <<3, 5>>
default_division2 == 9
default_xfade2 == <<3, 5>>
default_loudness2 == -23

---------------------------------------------------------------------------
\* The steps of the block loop.

\* A block count that rounds up instead: a trailing remainder gets a window.
BlockCountCeil(n, bs) ==
    IF bs <= 0 \/ n < 0 THEN IntDiv(n, bs)
    ELSE IF n % bs = 0 THEN n \div bs ELSE (n \div bs) + 1

\* block_count = int(samples / blocksize)
BlockCount(n, bs) == IntDiv(n, bs)

\* fadesize = int(blocksize * xfade)
FadeSize(bs, x) == Trunc(RMul(R(bs), x))

\* The block's window of the source buffer: start_idx, stop_idx, the clamp
\* of the first block's start and the last block's open end.
Window(src, i, count, bs, fs) ==
    LET start_raw == (i * bs) - fs
        stop_idx == start_raw + bs + fs
        start_idx == IF start_raw < 0 THEN 0 ELSE start_raw
    IN  IF i = count - 1 THEN PySliceFrom(src, start_idx)
        ELSE PySlice(src, start_idx, stop_idx)

\* A gain limit with its two branches exchanged.
LimitGainSwapped(l, target, mx) ==
    IF RGt(RAbs(RSub(target, l)), mx)
    THEN (IF RGt(l, target) THEN RSub(target, mx) ELSE RAdd(target, mx))
    ELSE l

\* "Limit the amount of gain we use": the loudness handed to normalize.
LimitGain(l, target, mx) ==
    IF RGt(RAbs(RSub(target, l)), mx)
    THEN (IF RGt(l, target) THEN RAdd(target, mx) ELSE RSub(target, mx))
    ELSE l

\* The loudness passed on: dyn_adapt4 limits it, dyn_adapt2 passes the reading.
PassedLoudness(v, l, target, mx) ==
    IF v = 4 THEN LimitGain(l, target, mx) ELSE l

\* The crossfade loop indexes prev_audio[jdx + blocksize - fadesize] and
\* sub_audio[jdx] for jdx in range(0, fadesize): an IndexError unless both
\* exist.
CrossfadeInBounds(prev, sub, bs, fs) ==
    fs <= 0 \/ (bs - fs >= 0 /\ bs - 1 < Len(prev) /\ fs - 1 < Len(sub))

\* One crossfaded sample: inv_mult * prev + mult * sub, mult = jdx * (1.0 / fadesize).
BlendSample(p, s, j, fs) ==
    LET mult == RMul(R(j), Norm(1, fs))
        inv_mult == RSub(R(1), mult)
    IN  RAdd(RMul(inv_mult, p), RMul(mult, s))

\* prev_audio after the crossfade loop.
Crossfade(prev, sub, bs, fs) ==
    [k \in 1..Len(prev) |->
        LET j == (k - 1) - (bs - fs)
        IN  IF j >= 0 /\ j < fs
            THEN [c \in 1..Len(prev[k]) |-> BlendSample(prev[k][c], sub[j + 1][c], j, fs)]
            ELSE prev[k]]

\* A shift that chops the decoded input instead of phase 1's output.
ShiftAudioFromInput(buf, orig, bs) == PySliceFrom(orig, IntDiv(bs, 2))

\* "Chop off half blocksize from the start": new_audio[int(blocksize/2):],
\* buf the script's new_audio, orig its audio.
ShiftAudio(buf, orig, bs) == PySliceFrom(buf, IntDiv(bs, 2))

---------------------------------------------------------------------------
\* Inputs: command lines and input files.

\* -d/--division (type=int), -l/--loudness (type=int), -m/--maxgain and
\* -x/--crossfade (type=float), -p/--nophase2.
Divisions4 == {-3, 0, 1, 4}
Loudnesses4 == {-36, 0}
MaxGains4 == {R(-20), R(0), R(40)}
Crossfades4 == {<<-1, 2>>, <<1, 4>>, R(1)}

Args4 ==
    [division : Divisions4, loudness : Loudnesses4, maxgain : MaxGains4,
     crossfade : Crossfades4, nophase2 : BOOLEAN]

\* dyn_adapt2: div:N and loudness:-N, each optional (<<>> when absent).
Divisions2 == {<<>>, <<0>>, <<2>>, <<3>>}
Loudnesses2 == {<<>>, <<16>>}

Args2 ==
    [division : Divisions2, loudness : Loudnesses2, maxgain : {R(0)},
     crossfade : {R(0)}, nophase2 : {TRUE}]

SampleRates == {1, 2}
ChannelCounts == {1, 2, 3}

Files ==
    [exists : {TRUE}, channels : ChannelCounts, rate : SampleRates,
     frames : 0..MaxLen]
    \cup [exists : {FALSE}, channels : {2}, rate : {1}, frames : {0}]

\* The sample of frame i (from 0), channel c (from 1) of an input file.
Sample(i, c) == R(((3 * i + 2 * c) % 5) - 2)

\* soundfile.read(..., dtype='float64', always_2d=True): frames x channels.
Decode(f) ==
    [i \in 1..f.frames |-> [c \in 1..f.channels |-> Sample(i - 1, c)]]

---------------------------------------------------------------------------
\* The state machine.

Init ==
    /\ variant \in {2, 4}
    /\ args \in (IF variant = 4 THEN Args4 ELSE Args2)
    /\ file \in Files
    /\ pc = "start"
    /\ division = 0
    /\ xfade = R(0)
    /\ final_loudness = R(0)
    /\ max_gain = R(0)
    /\ audio = <<>>
    /\ samplerate = 0
    /\ channels = 0
    /\ samples = 0
    /\ blocksize = 0
    /\ fadesize = 0
    /\ block_count = 0
    /\ idx = 0
    /\ loudness = <<>>
    /\ new_audio = <<>>
    /\ prev_audio = <<>>
    /\ shift_audio = <<>>
    /\ new_shift_audio = <<>>
    /\ written = <<>>
    /\ printed = ""
    /\ measured = <<>>
    /\ blend = <<>>
    /\ prev_id = <<0, 0>>
    /\ appended = <<>>
    /\ phase1_out = <<>>

\* dyn_adapt4: "division must be an even number!"
EvenDivision(d) == IF d % 2 # 0 THEN d + 1 ELSE d

\* dyn_adapt4: "xfade must be between 0 and 1"
ValidXfade(x) == IF RLe(x, R(0)) \/ RGe(x, R(1)) THEN default_crossfade ELSE x

\* dyn_adapt4: "final_loudness must be negative"
ValidLoudness(l) == IF l >= 0 THEN default_loudness ELSE l

\* The argument handling and the os.path.isfile test.  dyn_adapt4 parses,
\* tests the file, then corrects the values; dyn_adapt2 tests the file, then
\* scans the optional arguments over its defaults.
ParseArgs ==
    /\ pc = "start"
    /\ IF ~file.exists
       THEN /\ pc' = "exited"
            /\ printed' = "doesn't appear to exist"
            /\ UNCHANGED <<division, xfade, final_loudness, max_gain>>
       ELSE /\ pc' = "read"
            /\ printed' = printed
            /\ IF variant = 4
               THEN /\ division' = EvenDivision(args.division)
                    /\ xfade' = ValidXfade(args.crossfade)
                    /\ final_loudness' = R(ValidLoudness(args.loudness))
                    /\ max_gain' = RAbs(args.maxgain)
               ELSE /\ division' = IF args.division = <<>> THEN default_division2
                                   ELSE args.division[1]
                    /\ xfade' = default_xfade2
                    /\ final_loudness' = IF args.loudness = <<>> THEN R(default_loudness2)
                                         ELSE R(-args.loudness[1])
                    /\ max_gain' = max_gain
    /\ UNCHANGED <<variant, args, file, audio, samplerate, channels, samples,
                   blocksize, fadesize, block_count, idx, loudness, new_audio,
                   prev_audio, shift_audio, new_shift_audio, written, measured,
                   blend, prev_id, appended, phase1_out>>

\* soundfile.read and the channel test.  With always_2d=True the array always
\* has two dimensions, so the test is on audio.shape[1] alone.
ReadFile ==
    /\ pc = "read"
    /\ audio' = Decode(file)
    /\ samplerate' = file.rate
    /\ channels' = file.channels
    /\ samples' = IF variant = 2 THEN file.frames ELSE samples
    /\ IF file.channels > 2
       THEN /\ pc' = "exited"
            /\ printed' = "Only stereo audio is currently supported"
       ELSE /\ pc' = "plan"
            /\ printed' = printed
    /\ UNCHANGED <<variant, args, file, division, xfade, final_loudness,
                   max_gain, blocksize, fadesize, block_count, idx, loudness,
                   new_audio, prev_audio, shift_audio, new_shift_audio, written,
                   measured, blend, prev_id, appended, phase1_out>>

\* samples, blocksize, fadesize and the block count.  int(samples / blocksize)
\* raises ZeroDivisionError when blocksize is 0.  dyn_adapt2 computes the count
\* (into `division`) before fadesize, dyn_adapt4 after.
Plan ==
    /\ pc = "plan"
    /\ samples' = Len(audio)
    /\ blocksize' = division * samplerate
    /\ IF blocksize' = 0
       THEN /\ pc' = "crashed"
            /\ fadesize' = IF variant = 4 THEN FadeSize(blocksize', xfade) ELSE fadesize
            /\ UNCHANGED <<division, block_count>>
       ELSE /\ pc' = "phase1"
            /\ fadesize' = FadeSize(blocksize', xfade)
            /\ block_count' = BlockCount(samples', blocksize')
            /\ division' = IF variant = 2 THEN block_count' ELSE division
    /\ UNCHANGED <<variant, args, file, xfade, final_loudness, max_gain, audio,
                   samplerate, channels, idx, loudness, new_audio, prev_audio,
                   shift_audio, new_shift_audio, written, printed, measured,
                   blend, prev_id, appended, phase1_out>>

\* One iteration of a block loop over the buffer src, for the meter reading
\* given: the window, the (limited) loudness, the normalised block, the
\* crossfade into the held block, the trim, and the append of the held block
\* to the output buffer out.  `ok` is false when the iteration raises (the
\* meter's ValueError, an IndexError of the crossfade).
BlockStep(src, out, prev, i, count, reading) ==
    LET window == Window(src, i, count, blocksize, fadesize)
        passed == PassedLoudness(variant, reading, final_loudness, max_gain)
        sub == NormalizeLoudness(window, passed, final_loudness)
        inb == i = 0 \/ CrossfadeInBounds(prev, sub, blocksize, fadesize)
        faded == IF i > 0 /\ inb THEN Crossfade(prev, sub, blocksize, fadesize)
                 ELSE prev
    IN  [ok |-> ~MeterRejects(window, samplerate) /\ inb,
         loudness |-> passed,
         out |-> IF i > 0 THEN out \o faded ELSE out,
         prev |-> IF i > 0 THEN PySliceFrom(sub, fadesize) ELSE sub,
         blend |-> IF i > 0 THEN <<[prev |-> prev, curr |-> sub, result |-> faded]>>
                   ELSE <<>>]

\* Phase 1 loop body (dyn_adapt4 lines 135-194, dyn_adapt2 lines 117-167).
Block1 ==
    /\ pc = "phase1"
    /\ idx < block_count
    /\ \E reading \in MeterReadings(final_loudness) :
        LET st == BlockStep(audio, new_audio, prev_audio, idx, block_count, reading)
        IN  IF ~st.ok
            THEN /\ pc' = "crashed"
                 /\ UNCHANGED <<idx, loudness, new_audio, prev_audio, measured,
                                blend, prev_id, appended>>
            ELSE /\ pc' = pc
                 /\ idx' = idx + 1
                 /\ measured' = reading
                 /\ loudness' = st.loudness
                 /\ new_audio' = st.out
                 /\ prev_audio' = st.prev
                 /\ blend' = st.blend
                 /\ appended' = IF idx > 0 THEN Append(appended, prev_id) ELSE appended
                 /\ prev_id' = <<1, idx>>
    /\ UNCHANGED <<variant, args, file, division, xfade, final_loudness,
                   max_gain, audio, samplerate, channels, samples, blocksize,
                   fadesize, block_count, shift_audio, new_shift_audio, written,
                   printed, phase1_out>>

\* "Out of the loop we still need to concat the last block."
Flush1 ==
    /\ pc = "phase1"
    /\ idx >= block_count
    /\ new_audio' = new_audio \o prev_audio
    /\ appended' = IF prev_id # <<0, 0>> THEN Append(appended, prev_id) ELSE appended
    /\ phase1_out' = new_audio'
    /\ pc' = IF variant = 4 /\ ~args.nophase2 THEN "shift" ELSE "normalize"
    /\ UNCHANGED <<variant, args, file, division, xfade, final_loudness,
                   max_gain, audio, samplerate, channels, samples, blocksize,
                   fadesize, block_count, idx, loudness, prev_audio, shift_audio,
                   new_shift_audio, written, printed, measured, blend, prev_id>>

\* Phase 2 set-up: the shifted buffer and its block count.
Shift ==
    /\ pc = "shift"
    /\ shift_audio' = ShiftAudio(new_audio, audio, blocksize)
    /\ block_count' = BlockCount(Len(shift_audio'), blocksize)
    /\ idx' = 0
    /\ appended' = <<>>
    /\ pc' = "phase2"
    /\ UNCHANGED <<variant, args, file, division, xfade, final_loudness,
                   max_gain, audio, samplerate, channels, samples, blocksize,
                   fadesize, loudness, new_audio, prev_audio, new_shift_audio,
                   written, printed, measured, blend, prev_id, phase1_out>>

\* Phase 2 loop body (dyn_adapt4 lines 218-277).
Block2 ==
    /\ pc = "phase2"
    /\ idx < block_count
    /\ \E reading \in MeterReadings(final_loudness) :
        LET st == BlockStep(shift_audio, new_shift_audio, prev_audio, idx,
                            block_count, reading)
        IN  IF ~st.ok
            THEN /\ pc' = "crashed"
                 /\ UNCHANGED <<idx, loudness, new_shift_audio, prev_audio,
                                measured, blend, prev_id, appended>>
            ELSE /\ pc' = pc
                 /\ idx' = idx + 1
                 /\ measured' = reading
                 /\ loudness' = st.loudness
                 /\ new_shift_audio' = st.out
                 /\ prev_audio' = st.prev
                 /\ blend' = st.blend
                 /\ appended' = IF idx > 0 THEN Append(appended, prev_id) ELSE appended
                 /\ prev_id' = <<2, idx>>
    /\ UNCHANGED <<variant, args, file, division, xfade, final_loudness,
                   max_gain, audio, samplerate, channels, samples, blocksize,
                   fadesize, block_count, shift_audio, new_audio, written,
                   printed, phase1_out>>

\* Phase 2 flush and composition: the held block is appended to
\* new_shift_audio, and new_audio becomes its own first half block followed by
\* new_shift_audio.
Flush2 ==
    /\ pc = "phase2"
    /\ idx >= block_count
    /\ new_shift_audio' = new_shift_audio \o prev_audio
    /\ appended' = IF prev_id # <<0, 0>> THEN Append(appended, prev_id) ELSE appended
    /\ new_audio' = PySlice(new_audio, 0, IntDiv(blocksize, 2)) \o new_shift_audio'
    /\ pc' = "normalize"
    /\ UNCHANGED <<variant, args, file, division, xfade, final_loudness,
                   max_gain, audio, samplerate, channels, samples, blocksize,
                   fadesize, block_count, idx, loudness, prev_audio, shift_audio,
                   written, printed, measured, blend, prev_id, phase1_out>>

\* "Gain scale final buffer to requested loudness norm", then soundfile.write.
\* The meter raises on a buffer shorter than its gating block; the global gain
\* is not limited.
Normalize ==
    /\ pc = "normalize"
    /\ IF MeterRejects(new_audio, samplerate)
       THEN /\ pc' = "crashed"
            /\ UNCHANGED <<loudness, measured, new_audio, written>>
       ELSE \E reading \in MeterReadings(final_loudness) :
            /\ pc' = "done"
            /\ loudness' = reading
            /\ measured' = reading
            /\ new_audio' = NormalizeLoudness(new_audio, reading, final_loudness)
            /\ written' = <<new_audio'>>
    /\ UNCHANGED <<variant, args, file, division, xfade, final_loudness,
                   max_gain, audio, samplerate, channels, samples, blocksize,
                   fadesize, block_count, idx, prev_audio, shift_audio,
                   new_shift_audio, printed, blend, prev_id, appended,
                   phase1_out>>

Next ==
    \/ ParseArgs
    \/ ReadFile
    \/ Plan
    \/ Block1
    \/ Flush1
    \/ Shift
    \/ Block2
    \/ Flush2
    \/ Normalize

Spec == Init /\ [][Next]_vars

---------------------------------------------------------------------------
\* Vocabulary of the properties.

\* The input is what the scripts are written for: two channels.
Stereo == file.channels = 2

\* Phase 2 is part of this run.
Phase2Enabled == variant = 4 /\ ~args.nophase2

\* The phase-1 loop and its flush are behind the script.
Phase1Flushed == pc \in {"shift", "phase2", "normalize", "done"}

\* The script is inside a block loop or just behind it, and the loop has
\* processed at least one block: `loudness` and `measured` are that block's.
AfterBlock == pc \in {"phase1", "shift", "phase2", "normalize"} /\ measured # <<>>

\* The buffer the running (or last) block loop reads, and its phase.
CurPhase == IF pc = "phase2" \/ (Phase2Enabled /\ pc \in {"normalize", "done"}) THEN 2 ELSE 1
CurSource == IF CurPhase = 2 THEN shift_audio ELSE audio

\* The gain the last block wanted and the gain it got, in dB.
DesiredGain == RSub(final_loudness, measured)
AppliedGain == RSub(final_loudness, loudness)

CeilDiv(n, d) == IF n % d = 0 THEN n \div d ELSE (n \div d) + 1

RMin(a, b) == IF RLe(a, b) THEN a ELSE b
RMax(a, b) == IF RLe(a, b) THEN b ELSE a
Between(x, a, b) == RLe(RMin(a, b), x) /\ RLe(x, RMax(a, b))

\* <<ph, 0>>, ..., <<ph, n - 1>>
BlocksUpTo(ph, n) == [k \in 1..(IF n < 0 THEN 0 ELSE n) |-> <<ph, k - 1>>]

---------------------------------------------------------------------------
\* C1.  Length invariance of one phase pass: for a positive blocksize, the
\* buffer new_audio that the phase-1 loop and its flush leave has exactly as
\* many frames as the input, also when the input is shorter than one block.
PhasePassKeepsLength ==
    (Stereo /\ Phase1Flushed /\ blocksize > 0) => Len(phase1_out) = Len(audio)

\* The part of C1 the code keeps: an input of at least one block.
PhasePassKeepsLengthFromOneBlock ==
    (Phase1Flushed /\ blocksize > 0 /\ Len(audio) >= blocksize)
        => Len(phase1_out) = Len(audio)

\* C2.  Input channel check: an input with 1 channel or more than 2 makes the
\* run print a message and exit before any block is planned or processed and
\* with nothing written.
ChannelCheckRejectsNonStereo ==
    (pc \notin {"start", "read"} /\ file.exists /\ file.channels # 2)
        => (pc = "exited" /\ printed # "" /\ written = <<>>)

\* The part of C2 the code keeps: more than two channels.
ChannelCheckRejectsMultichannel ==
    (pc \notin {"start", "read"} /\ file.exists /\ file.channels > 2)
        => (pc = "exited" /\ printed # "" /\ written = <<>>)

\* C3.  Gain clamp (dyn_adapt4, both phases): the applied gain, target minus
\* the loudness passed to the normaliser, is the desired gain when that is
\* within max_gain, and +max_gain or -max_gain beyond it; block 0 of the
\* running loop is the window scaled by exactly that gain.
GainClamp ==
    (variant = 4 /\ AfterBlock) =>
        /\ RLe(RAbs(DesiredGain), max_gain) => AppliedGain = DesiredGain
        /\ RGt(DesiredGain, max_gain) => AppliedGain = max_gain
        /\ RLt(DesiredGain, RNeg(max_gain)) => AppliedGain = RNeg(max_gain)
        /\ RLe(RAbs(AppliedGain), max_gain)
        /\ (idx = 1 /\ pc \in {"phase1", "phase2"}) =>
              prev_audio = Scale(Window(CurSource, 0, block_count, blocksize, fadesize),
                                 Lin(AppliedGain))

\* C3 witness: a phase-2 block measured 40 dB too quiet under a 20 dB limit
\* got +20 dB and was scaled by 10.
GainClampWitness ==
    /\ variant = 4 /\ pc = "phase2" /\ idx = 1
    /\ max_gain = R(20)
    /\ DesiredGain = R(40)
    /\ AppliedGain = R(20)
    /\ prev_audio = Scale(Window(shift_audio, 0, block_count, blocksize, fadesize), R(10))
    /\ \E k \in 1..Len(prev_audio) : prev_audio[k][1] # R(0)

\* C4.  Silence handling: a block the meter reports at -inf gets no
\* correction, 0 dB, and block 0 is held exactly as it was read.
SilenceUnmodified ==
    (Stereo /\ AfterBlock /\ pc \in {"phase1", "phase2"} /\ measured = NegInf) =>
        /\ AppliedGain = R(0)
        /\ idx = 1 => prev_audio = Window(CurSource, 0, block_count, blocksize, fadesize)

\* C5 as claimed.  Phase 2 reads the input buffer itself minus its first half
\* block, so a composed sample from index blocksize/2 on is the input sample
\* scaled by gains within [-max_gain, +max_gain] only, and the composed
\* buffer is phase 1's first half block followed by the phase-2 output.
\* Stated for inputs of at least one and a half blocks, where both loops run.
Phase2ReadsInput ==
    (Stereo /\ Phase2Enabled /\ pc \in {"phase2", "normalize"}
        /\ blocksize > 0 /\ 2 * Len(audio) >= 3 * blocksize) =>
        /\ shift_audio = PySliceFrom(audio, IntDiv(blocksize, 2))
        /\ pc = "normalize" =>
            /\ new_audio = PySlice(phase1_out, 0, IntDiv(blocksize, 2)) \o new_shift_audio
            /\ \A k \in 1..Len(new_audio) : \A c \in 1..channels :
                  (k > IntDiv(blocksize, 2) /\ k <= Len(audio)) =>
                      Between(new_audio[k][c],
                              RMul(Lin(RNeg(max_gain)), audio[k][c]),
                              RMul(Lin(max_gain), audio[k][c]))

\* C5 as amended.  Phase 2 reads phase 1's output, already gain-corrected,
\* minus its first half block; the composed buffer is phase 1's first half
\* block followed by the whole phase-2 output buffer.
Phase2ReadsPhase1Output ==
    (Phase2Enabled /\ pc \in {"phase2", "normalize"}) =>
        /\ shift_audio = PySliceFrom(phase1_out, IntDiv(blocksize, 2))
        /\ pc = "normalize" =>
              new_audio = PySlice(phase1_out, 0, IntDiv(blocksize, 2)) \o new_shift_audio

\* C5 witness: under a 20 dB limit a composed sample behind the first half
\* block is the input sample times 100: +20 dB of phase 1 and +20 dB of
\* phase 2.
Phase2ReadsPhase1OutputWitness ==
    /\ Phase2Enabled /\ pc = "normalize"
    /\ max_gain = R(20)
    /\ Len(new_audio) = Len(audio)
    /\ shift_audio # PySliceFrom(audio, IntDiv(blocksize, 2))
    /\ \E k \in 1..Len(new_audio) :
          /\ k > IntDiv(blocksize, 2)
          /\ audio[k][1] # R(0)
          /\ new_audio[k][1] = RMul(R(100), audio[k][1])

\* C6 as claimed.  A phase pass over n frames has ceil(n / blocksize)
\* windows.
BlockCountIsCeil ==
    (Stereo /\ blocksize > 0 /\ pc \in {"phase1", "phase2"}) =>
        block_count = CeilDiv(Len(CurSource), blocksize)

\* C6 as amended.  A phase pass over n frames has floor(n / blocksize)
\* windows, none when n < blocksize, and the loop processes exactly those.
BlockCountIsFloor ==
    (blocksize > 0) =>
        /\ pc \in {"phase1", "phase2"} =>
              (block_count = Len(CurSource) \div blocksize /\ idx <= block_count)
        /\ pc \in {"shift", "normalize"} =>
              idx = Len(CurSource) \div blocksize

\* C6 witness: a loop over a buffer with a remainder has processed its two
\* windows, one fewer than the ceiling.
BlockCountIsFloorWitness ==
    /\ blocksize > 0
    /\ pc = "normalize"
    /\ Len(CurSource) % blocksize # 0
    /\ idx = 2
    /\ idx = Len(CurSource) \div blocksize
    /\ idx = CeilDiv(Len(CurSource), blocksize) - 1

\* C7.  Configuration auto-correction (dyn_adapt4): whatever the command
\* line, the division in force is even (an odd one raised by 1), the crossfade
\* is inside (0, 1) (0.6 otherwise), the target is negative (-16 otherwise),
\* max_gain is the absolute value given, and the run does not abort because of
\* these fields.
ConfigValuesCorrected ==
    (variant = 4 /\ file.exists /\ pc # "start") =>
        /\ division % 2 = 0
        /\ division = (IF args.division % 2 = 0 THEN args.division ELSE args.division + 1)
        /\ RLt(R(0), xfade) /\ RLt(xfade, R(1))
        /\ xfade = (IF RLt(R(0), args.crossfade) /\ RLt(args.crossfade, R(1))
                    THEN args.crossfade ELSE <<3, 5>>)
        /\ RLt(final_loudness, R(0))
        /\ final_loudness = (IF args.loudness < 0 THEN R(args.loudness) ELSE R(-16))
        /\ RGe(max_gain, R(0))
        /\ max_gain = (IF RLt(args.maxgain, R(0)) THEN RNeg(args.maxgain) ELSE args.maxgain)

\* C7, whole: the corrected values, and no abort on the division by
\* blocksize that the division field decides.
ConfigAutoCorrected ==
    /\ ConfigValuesCorrected
    /\ (variant = 4 /\ Stereo) => ~(pc = "crashed" /\ blocksize = 0)

\* C8.  Crossfade blend: block 0 of a loop is held unblended and untrimmed;
\* for every later block the held block is exactly one block long, only its
\* last fadesize frames change, frame blocksize - fadesize + j of it becomes
\* (1 - j/fadesize) * prev + (j/fadesize) * curr[j] in each channel, a value
\* between the two and equal to prev at j = 0, and the current block then
\* loses its first fadesize frames.
CrossfadeBlendHolds ==
    (pc \in {"phase1", "phase2"} /\ idx >= 1) =>
        IF idx = 1
        THEN /\ blend = <<>>
             /\ prev_audio = NormalizeLoudness(
                    Window(CurSource, 0, block_count, blocksize, fadesize),
                    loudness, final_loudness)
        ELSE /\ blend # <<>>
             /\ LET b == blend[1]
                    out == IF pc = "phase1" THEN new_audio ELSE new_shift_audio
                IN  /\ Len(b.prev) = blocksize
                    /\ Len(b.result) = blocksize
                    /\ fadesize <= Len(b.curr)
                    /\ \A k \in 1..blocksize : \A c \in 1..channels :
                          LET j == (k - 1) - (blocksize - fadesize)
                          IN  IF j >= 0
                              THEN /\ RMul(R(fadesize), b.result[k][c]) =
                                          RAdd(RMul(R(fadesize - j), b.prev[k][c]),
                                               RMul(R(j), b.curr[j + 1][c]))
                                   /\ Between(b.result[k][c], b.prev[k][c], b.curr[j + 1][c])
                                   /\ j = 0 => b.result[k][c] = b.prev[k][c]
                              ELSE b.result[k][c] = b.prev[k][c]
                    /\ prev_audio = PySliceFrom(b.curr, fadesize)
                    /\ PySliceFrom(out, Len(out) - blocksize) = b.result

\* C8, for a two-channel input and either script.
CrossfadeBlend == Stereo => CrossfadeBlendHolds

\* The part of C8 the code keeps: dyn_adapt4, whose block gains are limited.
CrossfadeBlendLimited == variant = 4 => CrossfadeBlendHolds

\* C9.  PhaseRunner ordering: inside a loop that has processed blocks
\* 0..idx-1, the output holds blocks 0..idx-2 of this phase in order and block
\* idx-1 is held; behind the loop and its flush the output holds blocks
\* 0..count-1 of this phase, each once, in order.
PhaseOrderingHolds ==
    /\ pc \in {"phase1", "phase2"} =>
          /\ appended = BlocksUpTo(CurPhase, idx - 1)
          /\ idx > 0 => prev_id = <<CurPhase, idx - 1>>
    /\ pc \in {"shift", "normalize"} =>
          appended = BlocksUpTo(CurPhase, block_count)

\* C9, for a two-channel input and a positive blocksize.
PhaseOrdering == (Stereo /\ blocksize > 0) => PhaseOrderingHolds

\* The part of C9 the code keeps: a loop with at least one block.
PhaseOrderingFromOneBlock == block_count >= 1 => PhaseOrderingHolds

\* C10.  Dual-phase length and no stale carry-over: with phase 2 enabled and
\* an input of at least one block, the composed buffer has as many frames as
\* the input and the phase-2 output holds phase-2 blocks only.
DualPhaseKeepsLength ==
    (Stereo /\ Phase2Enabled /\ pc = "normalize" /\ blocksize > 0
        /\ Len(audio) >= blocksize) =>
        /\ Len(new_audio) = Len(audio)
        /\ \A k \in 1..Len(appended) : appended[k][1] = 2

\* The part of C10 the code keeps: an input of at least one and a half blocks.
DualPhaseKeepsLengthFromOneAndAHalf ==
    (Phase2Enabled /\ pc = "normalize" /\ blocksize > 0
        /\ 2 * Len(audio) >= 3 * blocksize) =>
        /\ Len(new_audio) = Len(audio)
        /\ \A k \in 1..Len(appended) : appended[k][1] = 2

===========================================================================
